---- MODULE Spec2Model ----
(***************************************************************************)
(* Holmes-Gateway: the ticket-processing pipeline of gateway.go            *)
(* (decryptTicket, handleDecrypted, pushToTransport, pushToAMQP,           *)
(* connectRabbit, httpRequestIncoming) and the helpers of the tasking      *)
(* package it calls.                                                       *)
(*                                                                         *)
(* Go strings that the code inspects byte by byte (URIs, file names, task  *)
(* names, tags, comments) are sequences of byte values; identifiers the    *)
(* code only compares (key fingerprints, signer ids) are TLA+ strings.     *)
(***************************************************************************)
EXTENDS Integers, Sequences, FiniteSets, TLC

\* ------------------------------------------------------------------ bounds
\* Longest ticket (number of Task values) a request carries.
MaxTasks == 2
\* Longest list of task names an organization has in conf.AllowedTasks, in
\* the specification of the ACL partition alone.
MaxAllowed == 2
\* Largest number of fields in which a task given to checkTask on its own
\* differs from a task that passes, in the specification of checkTask alone.
MaxVaried == 2

\* ------------------------------------------------------- program constants
ERR_KEY_UNKNOWN == 1
ERR_ENCRYPTION == 2
ERR_TASK_INVALID == 3
ERR_NOT_ALLOWED == 4
ERR_OTHER_RECOVERABLE == 6
\* pushToAMQP: "for try < 3"
MaxReconnect == 3
\* aes.BlockSize, the IV length cipher.NewCBCDecrypter insists on
BlockSize == 16

Nil == "nil"

Range(f) == {f[k] : k \in DOMAIN f}

\* ---------------------------------------------------------------- strings
\* "YARA", "PEID", "CUCKOO" and the wildcard "*" as bytes
YARA == <<89, 65, 82, 65>>
PEID == <<80, 69, 73, 68>>
CUCKOO == <<67, 85, 67, 75, 79, 79>>
Wildcard == <<42>>
Names == {YARA, PEID, CUCKOO}

\* gateway.go stringPrintable: every byte in [0x09,0x0d] or [0x20,0x7e]
stringPrintable(s) ==
    \A k \in 1..Len(s) :
        ~(s[k] < 9 \/ (s[k] > 13 /\ s[k] < 32) \/ s[k] > 126)

\* A faulty variant of checkTask: the SecondaryURI is not looked at
checkTaskSkipsSecondary(t) ==
    /\ ~(t.PrimaryURI = <<>> \/ ~stringPrintable(t.PrimaryURI))
    /\ ~(t.Filename = <<>> \/ ~stringPrintable(t.Filename))
    /\ DOMAIN t.Tasks # {}
    /\ \A k \in DOMAIN t.Tasks : ~(k = <<>> \/ ~stringPrintable(k))
    /\ \A j \in 1..Len(t.Tags) : stringPrintable(t.Tags[j])
    /\ ~(t.Attempts < 0)
    /\ stringPrintable(t.Comment)

\* gateway.go checkTask: TRUE when the task is accepted (error = nil)
checkTask(task) ==
    /\ ~(task.PrimaryURI = <<>> \/ ~stringPrintable(task.PrimaryURI))
    /\ stringPrintable(task.SecondaryURI)
    /\ ~(task.Filename = <<>> \/ ~stringPrintable(task.Filename))
    /\ DOMAIN task.Tasks # {}
    /\ \A k \in DOMAIN task.Tasks : ~(k = <<>> \/ ~stringPrintable(k))
    /\ \A j \in 1..Len(task.Tags) : stringPrintable(task.Tags[j])
    /\ ~(task.Attempts < 0)
    /\ stringPrintable(task.Comment)

\* part_000 type Task
MkTask(primary, secondary, filename, tasks, tags, attempts, comment) ==
    [PrimaryURI |-> primary, SecondaryURI |-> secondary, Filename |-> filename,
     Tasks |-> tasks, Tags |-> tags, Attempts |-> attempts, Comment |-> comment]

\* A Go map[string][]string restricted to some of its keys
Restrict(m, ks) == [k \in ks |-> m[k]]
EmptyMap == [k \in {} |-> <<>>]

\* ------------------------------------------------------------------- ACL
\* conf.AllowedTasks as read from the configuration: organization -> list
confAllowedTasks ==
    [o \in {"OrgAll", "OrgSome", "OrgOne"} |->
        CASE o = "OrgAll" -> <<Wildcard>>
          [] o = "OrgSome" -> <<YARA, PEID, YARA>>
          [] OTHER -> <<CUCKOO>>]

\* gateway.go Start: "allowed[t] = struct{}{}" for every t of the list
AllowedSet(list) == Range(list)

\* gateway.go Start: allowedTasks, organization -> set of task names
allowedTasks == [o \in DOMAIN confAllowedTasks |-> AllowedSet(confAllowedTasks[o])]

\* A faulty variant of Partition: the wildcard test is skipped
PartitionNoWildcard(allowedForOrg, requested) ==
    [accepted |-> Restrict(requested, {t \in DOMAIN requested : t \in allowedForOrg}),
     rejected |-> Restrict(requested, {t \in DOMAIN requested : t \notin allowedForOrg})]

\* A faulty variant of Partition: a name that is not allowed is accepted as well
PartitionAcceptAll(allowedForOrg, requested) ==
    [accepted |-> requested,
     rejected |-> Restrict(requested, {t \in DOMAIN requested : t \notin allowedForOrg})]

\* gateway.go handleDecrypted, the ACL partition of one task's mapping
Partition(allowedForOrg, requested) ==
    IF Wildcard \in allowedForOrg
    THEN [accepted |-> requested, rejected |-> EmptyMap]
    ELSE [accepted |-> Restrict(requested, {t \in DOMAIN requested : t \in allowedForOrg}),
          rejected |-> Restrict(requested, {t \in DOMAIN requested : t \notin allowedForOrg})]

\* ---------------------------------------------------------------- crypto
\* crypto/aes NewCipher: nil (TRUE here) for a key of 16, 24 or 32 bytes. The
\* symmetric keys K1 and K2 have such a size, Kshort has not.
AesKeyOK(key) == key \in {"K1", "K2"}

\* An RSA-OAEP ciphertext is the pair (key pair it was made for, content);
\* anything else does not decrypt.
Garbage == [kind |-> "garbage"]
RsaEncrypt(sym, keypair) == [kind |-> "oaep", to |-> keypair, sym |-> sym]

\* part_000 RsaDecrypt: [err, key]; the key is nil when err
RsaDecrypt(ciphertext, keypair) ==
    IF ciphertext.kind = "oaep" /\ ciphertext.to = keypair
    THEN [err |-> FALSE, key |-> ciphertext.sym]
    ELSE [err |-> TRUE, key |-> Nil]

\* A payload text: the JSON of a ticket, or bytes that are no JSON.
GarbageText == [kind |-> "garbage"]
JsonText(v) == [kind |-> "json", value |-> v]

\* An AES-CBC ciphertext names the key and IV it was made with and the padded
\* text; "empty" is the zero-length ciphertext, "badpad" one whose last
\* decrypted byte exceeds its length, "partial" one that is no whole number
\* of blocks.
CbcText(key, iv, text) == [kind |-> "cbc", key |-> key, iv |-> iv, text |-> text]
CbcEmpty == [kind |-> "empty"]
CbcBadPad == [kind |-> "badpad"]
CbcPartial == [kind |-> "partial"]

\* part_000 AesDecrypt: [outcome, text], outcome one of ok, err, panic
\* (cipher.NewCBCDecrypter panics on an IV that is not one block long,
\* CryptBlocks on an input that is not full blocks).
AesDecrypt(ciphertext, key, iv) ==
    IF ~AesKeyOK(key) THEN [outcome |-> "err", text |-> Nil]
    ELSE IF Len(iv) # BlockSize THEN [outcome |-> "panic", text |-> Nil]
    ELSE IF ciphertext.kind = "partial" THEN [outcome |-> "panic", text |-> Nil]
    ELSE IF ciphertext.kind = "empty" THEN [outcome |-> "err", text |-> Nil]
    ELSE IF ciphertext.kind = "badpad" THEN [outcome |-> "err", text |-> Nil]
    ELSE IF ciphertext.key = key /\ ciphertext.iv = iv
         THEN [outcome |-> "ok", text |-> ciphertext.text]
         ELSE [outcome |-> "ok", text |-> GarbageText]

\* part_000 AesEncrypt: [outcome, body]; the body is []byte("") when err
AesEncrypt(plaintext, key, iv) ==
    IF ~AesKeyOK(key) THEN [outcome |-> "err", body |-> <<>>]
    ELSE IF Len(iv) # BlockSize THEN [outcome |-> "panic", body |-> <<>>]
    ELSE [outcome |-> "ok", body |-> CbcText(key, iv, plaintext)]

\* A faulty variant of FlipIV: the IV is used again as it came
FlipIVNone(iv) == iv

\* gateway.go httpRequestIncoming: "task.IV[0] ^= 1" on a non-empty IV
FlipIV(iv) ==
    [iv EXCEPT ![1] = IF iv[1] % 2 = 0 THEN iv[1] + 1 ELSE iv[1] - 1]

\* A PKCS#1 v1.5 signature is the pair (signing key pair, signed message).
Sign(message, keypair) == [by |-> keypair, over |-> message]
\* The nil signature
NoSignature == [by |-> Nil, over |-> <<>>]

\* part_000 Verify: TRUE when rsa.VerifyPKCS1v15 returns nil
Verify(signature, message, keypair) ==
    /\ signature # NoSignature
    /\ signature.by = keypair
    /\ signature.over = message

\* part_000 type Ticket
MkTicket(expiration, tasks, signer, signature) ==
    [Expiration |-> expiration, Tasks |-> tasks, SignerKeyId |-> signer,
     Signature |-> signature]

\* json.Marshal of a ticket whose Signature is nil: the other three fields
Marshal(ticket) ==
    <<ticket.Expiration, ticket.Tasks, ticket.SignerKeyId>>
NoTicket == MkTicket(0, <<>>, Nil, NoSignature)

\* A faulty variant of VerifyTicket: any signature made with the signer's key passes
VerifyTicketKeyOnly(ticket, keypair) ==
    ticket.Signature # NoSignature /\ ticket.Signature.by = keypair

\* part_000 VerifyTicket: TRUE when it returns nil
VerifyTicket(ticket, keypair) ==
    Verify(ticket.Signature, Marshal(ticket), keypair)

\* A faulty variant of Expired: the comparison is inverted
ExpiredInverted(now, expiration) == now < expiration

\* gateway.go handleDecrypted: time.Now().After(ticket.Expiration)
Expired(now, expiration) == now > expiration

\* ----------------------------------------------------------------- inputs
IV16 == [k \in 1..BlockSize |-> 0]
\* one block long, first byte 0xff
IV16ff == [k \in 1..BlockSize |-> IF k = 1 THEN 255 ELSE 0]
IVs == {IV16, IV16ff, <<7>>, <<>>}

TaskA ==
    MkTask(<<97>>, <<98>>, <<102>>,
           [n \in {YARA, PEID} |-> IF n = YARA THEN <<>> ELSE << <<120>> >>],
           << <<116>> >>, 0, <<99>>)
TaskB ==
    MkTask(<<99>>, <<>>, <<103>>,
           [n \in {YARA, PEID, CUCKOO} |-> IF n = CUCKOO THEN << <<121>> >> ELSE <<>>],
           <<>>, 1, <<>>)
\* an empty file name: checkTask rejects it
TaskBad ==
    MkTask(<<100>>, <<>>, <<>>, [n \in {YARA} |-> <<>>], <<>>, 0, <<>>)
SampleTasks == {TaskA, TaskB, TaskBad}

\* The expiration tickets carry, and the values time.Now() takes when a
\* ticket is checked: before, at and after that expiration.
Expirations == {2}
Clock == {1, 2, 3}

TaskSeqs == UNION {[1..n -> SampleTasks] : n \in 0..MaxTasks}

\* Signer ids: the organizations of conf.AllowedTasks, one whose key is
\* registered but that has no ACL entry, one with no registered key.
SignerIds == DOMAIN confAllowedTasks \cup {"OrgNoACL", "OrgNoKey"}

Bodies ==
    {MkTicket(e, ts, o, NoSignature) : e \in Expirations, ts \in TaskSeqs, o \in SignerIds}

\* The task list a ticket had when it was signed, if its tasks were altered
\* afterwards: one byte of the first task's comment differs, or a task was
\* taken out
TasksBefore(tasks) ==
    IF tasks = <<>> THEN <<TaskA>>
    ELSE [tasks EXCEPT ![1].Comment = <<122>> \o @]

\* What a ticket issuer, or somebody altering a ticket in flight, can send:
\* a body signed by its signer, signed by another key, signed and then
\* given a later expiration, other tasks or another signer id, or unsigned.
Tickets ==
    UNION {{[b EXCEPT !.Signature = Sign(Marshal(b), b.SignerKeyId)],
            [b EXCEPT !.Signature = Sign(Marshal(b), "OrgSome")],
            [b EXCEPT !.Signature = Sign(Marshal([b EXCEPT !.Expiration = 0]), b.SignerKeyId)],
            [b EXCEPT !.Signature =
                Sign(Marshal([b EXCEPT !.Tasks = TasksBefore(@)]), b.SignerKeyId)],
            [b EXCEPT !.Signature =
                Sign(Marshal([b EXCEPT !.SignerKeyId = "OrgSome"]), "OrgSome")],
            b} : b \in Bodies}

\* part_000 type Encrypted, with the base64 form field that does not decode
MkEnvelope(badField, fingerprint, encKey, encrypted, iv) ==
    [badField |-> badField, KeyFingerprint |-> fingerprint,
     EncryptedKey |-> encKey, Encrypted |-> encrypted, IV |-> iv]

\* Well-formed envelopes for the registered key src1 carrying any payload,
\* and envelopes of one payload with every combination of the envelope's own
\* fields.
Payloads ==
    {CbcText("K1", IV16, JsonText(t)) : t \in Tickets}
      \cup {CbcText("K1", IV16, GarbageText), CbcText("K2", IV16, GarbageText),
            CbcEmpty, CbcBadPad, CbcPartial}
Envelopes ==
    {MkEnvelope("none", "src1", RsaEncrypt("K1", "src1"), p, IV16) : p \in Payloads}
      \cup {MkEnvelope(bf, fp, ek, CbcText("K1", iv, GarbageText), iv) :
               bf \in {"none", "EncryptedKey", "IV", "Encrypted"},
               fp \in {"src1", "srcX"},
               ek \in {RsaEncrypt("K1", "src1"), RsaEncrypt("Kshort", "src1"),
                       RsaEncrypt("K1", "srcX"), Garbage},
               iv \in IVs}

\* Requests that reach both key lookups and carry no task: tickets of OrgAll
\* and of a signer without a key file, for the source src1
KeyClients ==
    {MkEnvelope("none", "src1", RsaEncrypt("K1", "src1"),
                CbcText("K1", IV16, JsonText(
                    [b EXCEPT !.Signature = Sign(Marshal(b), b.SignerKeyId)])), IV16) :
        b \in {MkTicket(2, <<>>, o, NoSignature) : o \in {"OrgAll", "OrgNoKey"}}}

\* The envelopes a population of clients sends
ClientEnvelopes(who) ==
    CASE who = "any" -> Envelopes
      [] who = "keys" -> KeyClients
      [] OTHER -> {}

\* ------------------------------------------------------------------ broker
\* part_000 has no broker type: a destination is gateway.go RabbitConf
RabbitConf(name) == [Queue |-> name, Exchange |-> name, RoutingKey |-> name]
\* conf.RabbitDefault
RabbitDefault == RabbitConf(<<100>>)
\* conf.SampleStorageURI
SampleStorageURI == <<115, 58>>

\* An *amqp.Channel: nil, or a channel that is open or closed and the
\* destinations declared on it. A failed declaration closes the channel
\* (an AMQP channel exception, or the connection is gone).
NilChannel == [nil |-> TRUE, open |-> FALSE, declared |-> {}]
Channel(open, declared) == [nil |-> FALSE, open |-> open, declared |-> declared]

\* amqp Channel.Publish on the shared handle: a nil handle panics, a closed
\* channel returns an error, an open one accepts the message or breaks.
PublishResults(ch) ==
    IF ch.nil THEN {[outcome |-> "panic", ch |-> ch]}
    ELSE IF ~ch.open THEN {[outcome |-> "err", ch |-> ch]}
    ELSE {[outcome |-> "ok", ch |-> ch],
          [outcome |-> "err", ch |-> [ch EXCEPT !.open = FALSE]]}

\* gateway.go connectRabbit and addRabbitConf: [err, ch], the error returned
\* and the value of rabbitChannel afterwards.
\*   - amqp.Dial fails: the handle is untouched;
\*   - conn.Channel() fails: the handle is assigned nil;
\*   - the default destination's declaration fails: the error is dropped, the
\*     channel is closed, and the first override declaration (if any) fails;
\*   - an override's declaration fails after some others were declared;
\*   - every declaration succeeds.
ConnectRabbitResults(ch, overrides) ==
    {[err |-> TRUE, ch |-> ch], [err |-> TRUE, ch |-> NilChannel]}
      \cup {[err |-> (overrides # {}), ch |-> Channel(FALSE, {})]}
      \cup {[err |-> TRUE, ch |-> Channel(FALSE, {RabbitDefault} \cup d)] :
               d \in (SUBSET overrides) \ {overrides}}
      \cup {[err |-> FALSE, ch |-> Channel(TRUE, {RabbitDefault} \cup overrides)]}

\* --------------------------------------------------------- key files
\* The extensions readKeys watches: private keys of the sources in
\* conf.SourcesKeysPath, public keys of the ticket signers in
\* conf.TicketKeysPath
Exts == {".priv", ".pub"}

\* Files the watchers get events for: a key file of each directory, and a
\* file that is no key file
WatchedFiles(w) ==
    IF w = ".priv" THEN {"keys/src1.priv", "keys/NOTES"}
    ELSE {"tickets/OrgAll.pub", "tickets/NOTES"}

\* path/filepath Ext
Ext(path) ==
    CASE path = "keys/src1.priv" -> ".priv"
      [] path = "tickets/OrgAll.pub" -> ".pub"
      [] OTHER -> ""

\* path/filepath Base
Base(path) ==
    CASE path = "keys/src1.priv" -> "src1.priv"
      [] path = "tickets/OrgAll.pub" -> "OrgAll.pub"
      [] path = "keys/NOTES" -> "NOTES"
      [] path = "tickets/NOTES" -> "NOTES"
      [] OTHER -> path

\* part_000 "name[:len(name)-len(ext)]" on a base name that ends in ext
CutExt(name) ==
    CASE name = "src1.priv" -> "src1"
      [] name = "OrgAll.pub" -> "OrgAll"
      [] OTHER -> name

\* What a key file holds when it is read: the key pair registered at the
\* start, another key pair, or bytes that are no PEM key
Rotated == "rotated"
Unparsable == "unparsable"
FileContents(path) == {CutExt(Base(path)), Rotated, Unparsable}

\* part_000 LoadPrivateKey and LoadPublicKey: [err, key, name]
LoadKey(path, content) ==
    IF content = Unparsable
    THEN [err |-> TRUE, key |-> Nil, name |-> "Parse"]
    ELSE [err |-> FALSE, key |-> content, name |-> CutExt(Base(path))]

\* part_000 dirWatcherFunc waiting in its select
WatcherIdle == [pc |-> "idle", kind |-> Nil, path |-> Nil, arg |-> Nil, key |-> Nil]

\* --------------------------------------------------------------- state
VARIABLES
    keys,           \* gateway.go keys: fingerprint -> private key
    ticketKeys,     \* gateway.go ticketKeys: signer id -> public key
    confRabbit,     \* conf.Rabbit: task name -> override destination
    rabbitChannel,  \* gateway.go rabbitChannel, the shared handle
    pc,             \* where the request being served stands
    req,            \* httpRequestIncoming task: the decoded envelope
    symKey,         \* handleIncoming symKey
    decTicket,      \* handleIncoming decTicket
    err,            \* the top-level error code (0: nil)
    tskerrors,      \* handleDecrypted tskerrors
    ticket,         \* handleDecrypted ticket
    signKey,        \* handleDecrypted signKey (nil: not found)
    i,              \* handleDecrypted loop index (1-based)
    task,           \* handleDecrypted task, a copy of ticket.Tasks[i]
    acceptedTasks,  \* handleDecrypted acceptedTasks, aliased by pushToTransport tasks
    rejectedTasks,  \* handleDecrypted rejectedTasks
    savedPrimaryURI,
    savedSecondaryURI,
    myerr,          \* handleDecrypted myerr: pushToTransport's result (0: nil)
    todo,           \* pushToTransport: names the range loop has yet to visit
    cur,            \* pushToTransport t
    pub,            \* pushToAMQP: the task marshalled into the message body
    rconf,          \* pushToAMQP rconf
    try,            \* pushToAMQP try
    amqpErr,        \* pushToAMQP's result (0: nil)
    retTo,          \* pushToAMQP's caller: the override or the default publish
    response,       \* what httpRequestIncoming wrote
    \* history, read by the properties only
    decIV,          \* the IV decryptTicket gave AesDecrypt (<<>>: not called)
    checkedAt,      \* the time.Now() the expiration was compared with (0: not yet)
    processed,      \* indices of the tasks the loop took up
    ptArg,          \* the mapping pushToTransport was called with
    published,      \* messages accepted by Publish in this pushToTransport call
    anyPublished,   \* some message was accepted by Publish in this request
    amqpLog,        \* Publish and connectRabbit outcomes of this pushToAMQP call
    \* the key directories
    keysMutex,      \* gateway.go keysMutex: nil when unlocked, else who holds it
    watcher,        \* part_000 dirWatcherFunc, one goroutine per key directory
    \* the environment
    clients,        \* which clients there are: "any", "keys" or "none"
    \* checkTask on its own (SpecCheck)
    chkIn,          \* a task
    chkOut,         \* checkTask's verdict on it, once given
    \* the ACL partition on its own (SpecACL)
    aclIn,          \* an organization's configured list and a requested mapping
    aclOut          \* the partition of the mapping, once made

registry == <<keys, ticketKeys>>
config == <<confRabbit>>
reqVars == <<req, symKey, decTicket, err, response>>
hdVars == <<tskerrors, ticket, signKey, i, task, acceptedTasks, rejectedTasks,
            savedPrimaryURI, savedSecondaryURI, myerr>>
ptVars == <<todo, cur>>
amqpVars == <<pub, rconf, try, amqpErr, retTo>>
history == <<decIV, checkedAt, processed, ptArg, published, anyPublished, amqpLog>>
acl == <<aclIn, aclOut>>
chk == <<chkIn, chkOut>>
keyWatch == <<keysMutex, watcher>>
env == <<clients>>
vars == <<registry, config, rabbitChannel, pc, reqVars, hdVars,
          ptVars, amqpVars, history, acl, chk, keyWatch, env>>

NoTask == MkTask(<<>>, <<>>, <<>>, EmptyMap, <<>>, 0, <<>>)
NoEnvelope == MkEnvelope("none", Nil, Garbage, CbcEmpty, <<>>)
NoResponse == [kind |-> "none", error |-> 0, tskerrors |-> <<>>, key |-> Nil, iv |-> <<>>]

\* The state a request starts from: every local of the handlers at its zero value
FreshRequest ==
    /\ symKey = Nil /\ decTicket = GarbageText /\ err = 0 /\ response = NoResponse
    /\ tskerrors = <<>> /\ ticket = NoTicket /\ signKey = Nil /\ i = 1 /\ task = NoTask
    /\ acceptedTasks = EmptyMap /\ rejectedTasks = EmptyMap
    /\ savedPrimaryURI = <<>> /\ savedSecondaryURI = <<>> /\ myerr = 0
    /\ todo = {} /\ cur = <<>>
    /\ pub = NoTask /\ rconf = RabbitDefault /\ try = 0 /\ amqpErr = 0 /\ retTo = Nil
    /\ decIV = <<>> /\ checkedAt = 0 /\ processed = <<>> /\ ptArg = EmptyMap /\ published = <<>>
    /\ anyPublished = FALSE /\ amqpLog = <<>>

\* gateway.go Start: empty handlers, the keys found in the key directories,
\* the override table of the configuration, a broker channel on which every
\* destination was declared.
NoPartition == [done |-> FALSE, accepted |-> EmptyMap, rejected |-> EmptyMap]
NoVerdict == [done |-> FALSE, ok |-> FALSE]

\* The handlers' state before the first request
InitGateway ==
    /\ keys = [f \in {"src1"} |-> "src1"]
    /\ ticketKeys = [o \in SignerIds \ {"OrgNoKey"} |-> o]
    /\ confRabbit \in {[n \in ns |-> RabbitConf(n)] : ns \in SUBSET {PEID, CUCKOO}}
    /\ rabbitChannel = Channel(TRUE, {RabbitDefault} \cup Range(confRabbit))
    /\ pc = "idle"
    /\ req = NoEnvelope
    /\ FreshRequest
    /\ keysMutex = Nil
    /\ watcher = [w \in Exts |-> WatcherIdle]

Init ==
    /\ InitGateway
    /\ chkIn = NoTask
    /\ chkOut = NoVerdict
    /\ clients = "any"
    /\ aclIn = [list |-> <<>>, requested |-> EmptyMap]
    /\ aclOut = NoPartition

\* Every local of the handlers back at its zero value, for the next request
ResetRequest ==
    /\ symKey' = Nil /\ decTicket' = GarbageText /\ err' = 0 /\ response' = NoResponse
    /\ tskerrors' = <<>> /\ ticket' = NoTicket /\ signKey' = Nil /\ i' = 1 /\ task' = NoTask
    /\ acceptedTasks' = EmptyMap /\ rejectedTasks' = EmptyMap
    /\ savedPrimaryURI' = <<>> /\ savedSecondaryURI' = <<>> /\ myerr' = 0
    /\ todo' = {} /\ cur' = <<>>
    /\ pub' = NoTask /\ rconf' = RabbitDefault /\ try' = 0 /\ amqpErr' = 0 /\ retTo' = Nil
    /\ decIV' = <<>> /\ checkedAt' = 0 /\ processed' = <<>> /\ ptArg' = EmptyMap /\ published' = <<>>
    /\ anyPublished' = FALSE /\ amqpLog' = <<>>

\* pushToAMQP has returned: its locals are gone
AmqpFrameGone ==
    /\ pub' = NoTask /\ rconf' = RabbitDefault /\ try' = 0 /\ amqpErr' = 0
    /\ retTo' = Nil /\ amqpLog' = <<>>

\* One turn of handleDecrypted's loop is over: the locals of the loop body
\* and of the pushToTransport call it made are gone
LoopBodyGone ==
    /\ task' = NoTask /\ acceptedTasks' = EmptyMap /\ rejectedTasks' = EmptyMap
    /\ savedPrimaryURI' = <<>> /\ savedSecondaryURI' = <<>> /\ myerr' = 0
    /\ todo' = {} /\ cur' = <<>> /\ ptArg' = EmptyMap /\ published' = <<>>

\* ------------------------------------------------- httpRequestIncoming
\* gateway.go initHTTP: net/http calls httpRequestIncoming with a request
NewRequest ==
    /\ pc = "idle"
    /\ \E e \in ClientEnvelopes(clients) : req' = e
    /\ pc' = "decode"
    /\ UNCHANGED <<acl, chk, env, keyWatch, registry, config, rabbitChannel, symKey, decTicket, err, response,
                   hdVars, ptVars, amqpVars, history>>

\* gateway.go httpRequestIncoming returns, or net/http recovers its panic:
\* the handler's locals are gone, the globals stay
HandlerReturns ==
    /\ pc \in {"done", "panicked"}
    /\ pc' = "idle"
    /\ req' = NoEnvelope
    /\ ResetRequest
    /\ UNCHANGED <<acl, chk, env, keyWatch, registry, config, rabbitChannel>>

\* gateway.go decodeTask and httpRequestIncoming lines 326-332: a field that
\* is no base64 ends the request with the marshalled error, in the clear.
DecodeTask ==
    /\ pc = "decode"
    /\ IF req.badField # "none"
       THEN /\ response' = [NoResponse EXCEPT !.kind = "plain", !.error = ERR_OTHER_RECOVERABLE]
            /\ pc' = "done"
       ELSE /\ pc' = "decrypt"
            /\ UNCHANGED response
    /\ UNCHANGED <<acl, chk, env, keyWatch, registry, config, rabbitChannel, req, symKey, decTicket,
                   err, hdVars, ptVars, amqpVars, history>>

\* A faulty variant of decryptTicket: the symmetric key is not handed back when the
\* payload fails to decrypt
decryptTicketDropsKey(enc, keymap) ==
    IF enc.KeyFingerprint \notin DOMAIN keymap
    THEN [outcome |-> "err", text |-> GarbageText, code |-> ERR_KEY_UNKNOWN, symKey |-> Nil]
    ELSE LET k == RsaDecrypt(enc.EncryptedKey, keymap[enc.KeyFingerprint]) IN
         IF k.err
         THEN [outcome |-> "err", text |-> GarbageText, code |-> ERR_ENCRYPTION, symKey |-> Nil]
         ELSE LET d == AesDecrypt(enc.Encrypted, k.key, enc.IV) IN
              CASE d.outcome = "panic" ->
                     [outcome |-> "panic", text |-> GarbageText, code |-> 0, symKey |-> Nil]
                [] d.outcome = "err" ->
                     [outcome |-> "err", text |-> GarbageText, code |-> ERR_ENCRYPTION,
                      symKey |-> Nil]
                [] OTHER ->
                     [outcome |-> "ok", text |-> d.text, code |-> 0, symKey |-> k.key]

\* gateway.go decryptTicket: [outcome, text, code, symKey]
decryptTicket(enc, keymap) ==
    IF enc.KeyFingerprint \notin DOMAIN keymap
    THEN [outcome |-> "err", text |-> GarbageText, code |-> ERR_KEY_UNKNOWN, symKey |-> Nil]
    ELSE LET k == RsaDecrypt(enc.EncryptedKey, keymap[enc.KeyFingerprint]) IN
         IF k.err
         THEN [outcome |-> "err", text |-> GarbageText, code |-> ERR_ENCRYPTION, symKey |-> Nil]
         ELSE LET d == AesDecrypt(enc.Encrypted, k.key, enc.IV) IN
              CASE d.outcome = "panic" ->
                     [outcome |-> "panic", text |-> GarbageText, code |-> 0, symKey |-> Nil]
                [] d.outcome = "err" ->
                     [outcome |-> "err", text |-> GarbageText, code |-> ERR_ENCRYPTION,
                      symKey |-> k.key]
                [] OTHER ->
                     [outcome |-> "ok", text |-> d.text, code |-> 0, symKey |-> k.key]

\* gateway.go handleIncoming lines 310-314: decryptTicket and its error
\* return. The lookup of lines 45-47 waits for keysMutex and releases it
\* before anything is decrypted.
DecryptTicket ==
    /\ pc = "decrypt"
    /\ keysMutex = Nil
    /\ LET r == decryptTicket(req, keys) IN
       /\ symKey' = r.symKey
       /\ decTicket' = r.text
       /\ err' = r.code
       /\ decIV' = IF r.symKey # Nil \/ r.outcome = "panic" THEN req.IV ELSE <<>>
       /\ pc' = CASE r.outcome = "panic" -> "panicked"
                  [] r.outcome = "err" -> "respond"
                  [] OTHER -> "handleDecrypted"
    /\ UNCHANGED <<acl, chk, env, keyWatch, registry, config, rabbitChannel, req, response, hdVars,
                   ptVars, amqpVars, checkedAt, processed, ptArg, published,
                   anyPublished, amqpLog>>

\* A faulty variant of TicketStages: the expiration is not checked
TicketStagesNoExpiry(text, tkeys, now) ==
    IF text.kind # "json" THEN ERR_OTHER_RECOVERABLE
    ELSE IF text.value.SignerKeyId \notin DOMAIN tkeys THEN ERR_KEY_UNKNOWN
    ELSE IF ~VerifyTicket(text.value, tkeys[text.value.SignerKeyId])
    THEN ERR_OTHER_RECOVERABLE
    ELSE IF text.value.SignerKeyId \notin DOMAIN allowedTasks THEN ERR_OTHER_RECOVERABLE
    ELSE 0

\* A faulty variant of TicketStages: the expiration is checked before the signer's
\* key is looked up
TicketStagesExpiryFirst(text, tkeys, now) ==
    IF text.kind # "json" THEN ERR_OTHER_RECOVERABLE
    ELSE IF Expired(now, text.value.Expiration) THEN ERR_OTHER_RECOVERABLE
    ELSE IF text.value.SignerKeyId \notin DOMAIN tkeys THEN ERR_KEY_UNKNOWN
    ELSE IF ~VerifyTicket(text.value, tkeys[text.value.SignerKeyId])
    THEN ERR_OTHER_RECOVERABLE
    ELSE IF text.value.SignerKeyId \notin DOMAIN allowedTasks THEN ERR_OTHER_RECOVERABLE
    ELSE 0

\* gateway.go handleDecrypted lines 112-140: the error code of the first
\* check that fails (0: none), in the code's order: json.Unmarshal, the
\* signer key lookup, VerifyTicket, the expiration, the organization's ACL
\* entry.
TicketStages(text, tkeys, now) ==
    IF text.kind # "json" THEN ERR_OTHER_RECOVERABLE
    ELSE IF text.value.SignerKeyId \notin DOMAIN tkeys THEN ERR_KEY_UNKNOWN
    ELSE IF ~VerifyTicket(text.value, tkeys[text.value.SignerKeyId])
    THEN ERR_OTHER_RECOVERABLE
    ELSE IF Expired(now, text.value.Expiration) THEN ERR_OTHER_RECOVERABLE
    ELSE IF text.value.SignerKeyId \notin DOMAIN allowedTasks THEN ERR_OTHER_RECOVERABLE
    ELSE 0

\* gateway.go handleDecrypted lines 112-130: the ticket parsed, its signer's
\* key was found and the signature verified, so that line 131 reads the time
ReachesExpiration(text, tkeys) ==
    /\ text.kind = "json"
    /\ text.value.SignerKeyId \in DOMAIN tkeys
    /\ VerifyTicket(text.value, tkeys[text.value.SignerKeyId])

\* gateway.go handleDecrypted lines 110-140 and handleIncoming lines 316-320
HandleDecrypted ==
    /\ pc = "handleDecrypted"
    /\ \E now \in Clock :
         /\ err' = TicketStages(decTicket, ticketKeys, now)
         /\ checkedAt' = IF ReachesExpiration(decTicket, ticketKeys) THEN now ELSE 0
         /\ pc' = IF err' # 0 THEN "respond" ELSE "hd_loop"
    /\ ticket' = IF decTicket.kind = "json" THEN decTicket.value ELSE ticket
    /\ signKey' = IF decTicket.kind = "json" /\ decTicket.value.SignerKeyId \in DOMAIN ticketKeys
                  THEN ticketKeys[decTicket.value.SignerKeyId] ELSE Nil
    /\ tskerrors' = <<>>
    /\ i' = 1
    /\ UNCHANGED <<acl, chk, env, keyWatch, registry, config, rabbitChannel, req, symKey, decTicket,
                   response, task, acceptedTasks, rejectedTasks, savedPrimaryURI,
                   savedSecondaryURI, myerr, ptVars, amqpVars, decIV, processed,
                   ptArg, published, anyPublished, amqpLog>>

\* part_000 type TaskError (the error record reduced to its code)
TaskError(t, code) == [TaskStruct |-> t, Code |-> code]

\* gateway.go handleDecrypted lines 143 and 200, handleIncoming line 322:
\* the loop is over and the collected errors are returned
HdLoopExit ==
    /\ pc = "hd_loop"
    /\ i > Len(ticket.Tasks)
    /\ pc' = "respond"
    /\ UNCHANGED <<acl, chk, env, keyWatch, registry, config, rabbitChannel, reqVars, hdVars,
                   ptVars, amqpVars, history>>

\* A faulty variant of HdTaskInvalid: the invalid task is skipped without a TaskError
HdTaskInvalidSilent ==
    /\ pc = "hd_loop"
    /\ i <= Len(ticket.Tasks)
    /\ ~checkTask(ticket.Tasks[i])
    /\ processed' = Append(processed, i)
    /\ i' = i + 1
    /\ UNCHANGED <<acl, chk, env, keyWatch, registry, config, rabbitChannel, pc, reqVars, tskerrors, ticket,
                   signKey, task, acceptedTasks, rejectedTasks, savedPrimaryURI,
                   savedSecondaryURI, myerr, ptVars, amqpVars, decIV, checkedAt, ptArg,
                   published, anyPublished, amqpLog>>

\* gateway.go handleDecrypted lines 144-150: checkTask fails
HdTaskInvalid ==
    /\ pc = "hd_loop"
    /\ i <= Len(ticket.Tasks)
    /\ ~checkTask(ticket.Tasks[i])
    /\ tskerrors' = Append(tskerrors, TaskError(ticket.Tasks[i], ERR_TASK_INVALID))
    /\ processed' = Append(processed, i)
    /\ i' = i + 1
    /\ UNCHANGED <<acl, chk, env, keyWatch, registry, config, rabbitChannel, pc, reqVars, ticket,
                   signKey, task, acceptedTasks, rejectedTasks, savedPrimaryURI,
                   savedSecondaryURI, myerr, ptVars, amqpVars, decIV, checkedAt, ptArg,
                   published, anyPublished, amqpLog>>

\* gateway.go handleDecrypted lines 174-177: the URIs get the storage prefix
PrefixURIs(t) ==
    [t EXCEPT !.PrimaryURI = SampleStorageURI \o @,
              !.SecondaryURI = IF @ # <<>> THEN SampleStorageURI \o @ ELSE @]

\* gateway.go handleDecrypted lines 151-179 and pushToTransport line 269:
\* the ACL partition, the URI rewrite and the call of pushToTransport, whose
\* tasks is the very map acceptedTasks refers to.
HdTaskDispatch ==
    /\ pc = "hd_loop"
    /\ i <= Len(ticket.Tasks)
    /\ checkTask(ticket.Tasks[i])
    /\ LET p == Partition(allowedTasks[ticket.SignerKeyId], ticket.Tasks[i].Tasks) IN
       /\ acceptedTasks' = p.accepted
       /\ rejectedTasks' = p.rejected
       /\ task' = [PrefixURIs(ticket.Tasks[i]) EXCEPT !.Tasks = p.accepted]
       /\ ptArg' = p.accepted
       /\ todo' = DOMAIN p.accepted
    /\ savedPrimaryURI' = ticket.Tasks[i].PrimaryURI
    /\ savedSecondaryURI' = ticket.Tasks[i].SecondaryURI
    /\ processed' = Append(processed, i)
    /\ published' = <<>>
    /\ myerr' = 0
    /\ pc' = "pt_loop"
    /\ UNCHANGED <<acl, chk, env, keyWatch, registry, config, rabbitChannel, reqVars, tskerrors,
                   ticket, signKey, i, cur, amqpVars, decIV, checkedAt, anyPublished, amqpLog>>

\* ------------------------------------------------------- pushToTransport
\* gateway.go pushToTransport lines 277-284: a name without an override
PtSkip ==
    /\ pc = "pt_loop"
    /\ \E t \in todo :
         /\ t \notin DOMAIN confRabbit
         /\ todo' = todo \ {t}
         /\ cur' = t
    /\ UNCHANGED <<acl, chk, env, keyWatch, registry, config, rabbitChannel, pc, reqVars, hdVars,
                   amqpVars, history>>

\* gateway.go pushToTransport lines 277-288: a name with an override is sent
\* alone to its destination
PtOverride ==
    /\ pc = "pt_loop"
    /\ \E t \in todo :
         /\ t \in DOMAIN confRabbit
         /\ todo' = todo \ {t}
         /\ cur' = t
         /\ pub' = [task EXCEPT !.Tasks = Restrict(acceptedTasks, {t})]
         /\ rconf' = confRabbit[t]
    /\ retTo' = "pt_afterOverride"
    /\ try' = 0
    /\ amqpErr' = 0
    /\ amqpLog' = <<>>
    /\ pc' = "amqp_publish"
    /\ UNCHANGED <<acl, chk, env, keyWatch, registry, config, rabbitChannel, reqVars, hdVars,
                   decIV, checkedAt, processed, ptArg, published, anyPublished>>

\* A faulty variant of PtAfterOverride: the name stays in the mapping
PtAfterOverrideKeepsName ==
    /\ pc = "pt_afterOverride"
    /\ IF amqpErr # 0
       THEN /\ myerr' = amqpErr
            /\ pc' = "hd_afterPush"
       ELSE /\ myerr' = myerr
            /\ pc' = "pt_loop"
    /\ AmqpFrameGone
    /\ UNCHANGED <<acl, chk, env, keyWatch, registry, config, rabbitChannel, reqVars, tskerrors,
                   ticket, signKey, i, task, acceptedTasks, rejectedTasks,
                   savedPrimaryURI, savedSecondaryURI, ptVars, decIV, checkedAt, processed,
                   ptArg, published, anyPublished>>

\* A faulty variant of PtAfterOverride: the loop goes on after a failed publish
PtAfterOverrideContinues ==
    /\ pc = "pt_afterOverride"
    /\ IF amqpErr # 0
       THEN /\ myerr' = amqpErr
            /\ UNCHANGED acceptedTasks
       ELSE /\ acceptedTasks' = Restrict(acceptedTasks, DOMAIN acceptedTasks \ {cur})
            /\ UNCHANGED myerr
    /\ pc' = "pt_loop"
    /\ AmqpFrameGone
    /\ UNCHANGED <<acl, chk, env, keyWatch, registry, config, rabbitChannel, reqVars, tskerrors,
                   ticket, signKey, i, task, rejectedTasks, savedPrimaryURI,
                   savedSecondaryURI, ptVars, decIV, checkedAt, processed, ptArg, published,
                   anyPublished>>

\* gateway.go pushToTransport lines 288-293: the override publish failed and
\* pushToTransport returns its error, or the name is deleted from tasks, the
\* map handleDecrypted knows as acceptedTasks
PtAfterOverride ==
    /\ pc = "pt_afterOverride"
    /\ IF amqpErr # 0
       THEN /\ myerr' = amqpErr
            /\ pc' = "hd_afterPush"
            /\ UNCHANGED acceptedTasks
       ELSE /\ acceptedTasks' = Restrict(acceptedTasks, DOMAIN acceptedTasks \ {cur})
            /\ pc' = "pt_loop"
            /\ UNCHANGED myerr
    /\ AmqpFrameGone
    /\ UNCHANGED <<acl, chk, env, keyWatch, registry, config, rabbitChannel, reqVars, tskerrors,
                   ticket, signKey, i, task, rejectedTasks, savedPrimaryURI,
                   savedSecondaryURI, ptVars, decIV, checkedAt, processed, ptArg, published,
                   anyPublished>>

\* gateway.go pushToTransport lines 297-299: nothing is left for the default
PtReturnEmpty ==
    /\ pc = "pt_loop"
    /\ todo = {}
    /\ DOMAIN acceptedTasks = {}
    /\ myerr' = 0
    /\ pc' = "hd_afterPush"
    /\ UNCHANGED <<acl, chk, env, keyWatch, registry, config, rabbitChannel, reqVars, tskerrors,
                   ticket, signKey, i, task, acceptedTasks, rejectedTasks,
                   savedPrimaryURI, savedSecondaryURI, ptVars, amqpVars, history>>

\* gateway.go pushToTransport lines 301-302: what is left goes to the default
PtDefault ==
    /\ pc = "pt_loop"
    /\ todo = {}
    /\ DOMAIN acceptedTasks # {}
    /\ pub' = [task EXCEPT !.Tasks = acceptedTasks]
    /\ rconf' = RabbitDefault
    /\ retTo' = "pt_afterDefault"
    /\ try' = 0
    /\ amqpErr' = 0
    /\ amqpLog' = <<>>
    /\ pc' = "amqp_publish"
    /\ UNCHANGED <<acl, chk, env, keyWatch, registry, config, rabbitChannel, reqVars, hdVars, ptVars,
                   decIV, checkedAt, processed, ptArg, published, anyPublished>>

\* gateway.go pushToTransport lines 302-306: the default publish's result
PtAfterDefault ==
    /\ pc = "pt_afterDefault"
    /\ myerr' = amqpErr
    /\ pc' = "hd_afterPush"
    /\ AmqpFrameGone
    /\ UNCHANGED <<acl, chk, env, keyWatch, registry, config, rabbitChannel, reqVars, tskerrors,
                   ticket, signKey, i, task, acceptedTasks, rejectedTasks,
                   savedPrimaryURI, savedSecondaryURI, ptVars, decIV, checkedAt, processed,
                   ptArg, published, anyPublished>>

\* ------------------------------------------------------------ pushToAMQP
Message(dest, body) == [dest |-> dest, body |-> body]

\* gateway.go pushToAMQP lines 234-239 and 262: the first Publish
AmqpPublish ==
    /\ pc = "amqp_publish"
    /\ \E r \in PublishResults(rabbitChannel) :
         /\ rabbitChannel' = r.ch
         /\ CASE r.outcome = "panic" ->
                   /\ pc' = "panicked"
                   /\ UNCHANGED <<amqpLog, published, anyPublished, amqpErr>>
              [] r.outcome = "ok" ->
                   /\ amqpLog' = Append(amqpLog, "pub_ok")
                   /\ published' = Append(published, Message(rconf, pub))
                   /\ anyPublished' = TRUE
                   /\ amqpErr' = 0
                   /\ pc' = retTo
              [] OTHER ->
                   /\ amqpLog' = Append(amqpLog, "pub_err")
                   /\ pc' = "amqp_reconnect"
                   /\ UNCHANGED <<published, anyPublished, amqpErr>>
    /\ try' = 0
    /\ UNCHANGED <<acl, chk, env, keyWatch, registry, config, reqVars, hdVars, ptVars, pub, rconf,
                   retTo, decIV, checkedAt, processed, ptArg>>

\* A faulty variant of AmqpReconnect: the publish is retried after a failed reconnect
AmqpReconnectRetriesAnyway ==
    /\ pc = "amqp_reconnect"
    /\ try < MaxReconnect
    /\ try' = try + 1
    /\ \E r \in ConnectRabbitResults(rabbitChannel, Range(confRabbit)) :
         /\ rabbitChannel' = r.ch
         /\ amqpLog' = Append(amqpLog, IF r.err THEN "conn_err" ELSE "conn_ok")
         /\ pc' = "amqp_retry"
         /\ amqpErr' = amqpErr
    /\ UNCHANGED <<acl, chk, env, keyWatch, registry, config, reqVars, hdVars, ptVars, pub, rconf,
                   retTo, decIV, checkedAt, processed, ptArg, published, anyPublished>>

\* gateway.go pushToAMQP lines 240-254: one turn of the reconnect loop; the
\* loop ends with the first connectRabbit that returns nil, or after the
\* third failure with ERR_OTHER_RECOVERABLE
AmqpReconnect ==
    /\ pc = "amqp_reconnect"
    /\ try < MaxReconnect
    /\ try' = try + 1
    /\ \E r \in ConnectRabbitResults(rabbitChannel, Range(confRabbit)) :
         /\ rabbitChannel' = r.ch
         /\ amqpLog' = Append(amqpLog, IF r.err THEN "conn_err" ELSE "conn_ok")
         /\ IF ~r.err
            THEN pc' = "amqp_retry" /\ amqpErr' = amqpErr
            ELSE IF try' < MaxReconnect
                 THEN pc' = "amqp_reconnect" /\ amqpErr' = amqpErr
                 ELSE pc' = retTo /\ amqpErr' = ERR_OTHER_RECOVERABLE
    /\ UNCHANGED <<acl, chk, env, keyWatch, registry, config, reqVars, hdVars, ptVars, pub, rconf,
                   retTo, decIV, checkedAt, processed, ptArg, published, anyPublished>>

\* A faulty variant of AmqpRetry: the error of the retried Publish is dropped
AmqpRetryIgnoresError ==
    /\ pc = "amqp_retry"
    /\ \E r \in PublishResults(rabbitChannel) :
         /\ rabbitChannel' = r.ch
         /\ CASE r.outcome = "panic" ->
                   /\ pc' = "panicked"
                   /\ UNCHANGED <<amqpLog, published, anyPublished, amqpErr>>
              [] r.outcome = "ok" ->
                   /\ amqpLog' = Append(amqpLog, "pub_ok")
                   /\ published' = Append(published, Message(rconf, pub))
                   /\ anyPublished' = TRUE
                   /\ amqpErr' = 0
                   /\ pc' = retTo
              [] OTHER ->
                   /\ amqpLog' = Append(amqpLog, "pub_err")
                   /\ amqpErr' = 0
                   /\ pc' = retTo
                   /\ UNCHANGED <<published, anyPublished>>
    /\ UNCHANGED <<acl, chk, env, keyWatch, registry, config, reqVars, hdVars, ptVars, pub, rconf,
                   try, retTo, decIV, checkedAt, processed, ptArg>>

\* gateway.go pushToAMQP lines 256-262: the one retry of the Publish
AmqpRetry ==
    /\ pc = "amqp_retry"
    /\ \E r \in PublishResults(rabbitChannel) :
         /\ rabbitChannel' = r.ch
         /\ CASE r.outcome = "panic" ->
                   /\ pc' = "panicked"
                   /\ UNCHANGED <<amqpLog, published, anyPublished, amqpErr>>
              [] r.outcome = "ok" ->
                   /\ amqpLog' = Append(amqpLog, "pub_ok")
                   /\ published' = Append(published, Message(rconf, pub))
                   /\ anyPublished' = TRUE
                   /\ amqpErr' = 0
                   /\ pc' = retTo
              [] OTHER ->
                   /\ amqpLog' = Append(amqpLog, "pub_err")
                   /\ amqpErr' = ERR_OTHER_RECOVERABLE
                   /\ pc' = retTo
                   /\ UNCHANGED <<published, anyPublished>>
    /\ UNCHANGED <<acl, chk, env, keyWatch, registry, config, reqVars, hdVars, ptVars, pub, rconf,
                   try, retTo, decIV, checkedAt, processed, ptArg>>

\* ------------------------------------------- handleDecrypted, after routing
\* gateway.go handleDecrypted lines 180-187: the TaskError of a failed routing
RoutingError(t, primary, secondary, accepted, code) ==
    IF code = 0 THEN <<>>
    ELSE <<TaskError([t EXCEPT !.PrimaryURI = primary, !.SecondaryURI = secondary,
                               !.Tasks = accepted], code)>>

\* A faulty variant of RejectedError: the task keeps the URIs it was routed with
RejectedErrorPrefixed(t, primary, secondary, rejected) ==
    IF DOMAIN rejected = {} THEN <<>>
    ELSE <<TaskError([t EXCEPT !.Tasks = rejected], ERR_NOT_ALLOWED)>>

\* gateway.go handleDecrypted lines 188-196: the TaskError of the rejected names
RejectedError(t, primary, secondary, rejected) ==
    IF DOMAIN rejected = {} THEN <<>>
    ELSE <<TaskError([t EXCEPT !.PrimaryURI = primary, !.SecondaryURI = secondary,
                               !.Tasks = rejected], ERR_NOT_ALLOWED)>>

\* gateway.go handleDecrypted lines 179-198: pushToTransport has returned
HdAfterPush ==
    /\ pc = "hd_afterPush"
    /\ tskerrors' = tskerrors
          \o RoutingError(task, savedPrimaryURI, savedSecondaryURI, acceptedTasks, myerr)
          \o RejectedError(task, savedPrimaryURI, savedSecondaryURI, rejectedTasks)
    /\ i' = i + 1
    /\ pc' = "hd_loop"
    /\ LoopBodyGone
    /\ UNCHANGED <<acl, chk, env, keyWatch, registry, config, rabbitChannel, reqVars, ticket, signKey,
                   amqpVars, decIV, checkedAt, processed, anyPublished, amqpLog>>

\* ------------------------------------------------------------ the response
\* part_000 type GatewayAnswer: handleIncoming hands back no TaskErrors with
\* a top-level error
Answer(code, errs) == [Error |-> code, TskErrors |-> IF code # 0 THEN <<>> ELSE errs]

\* gateway.go httpRequestIncoming lines 334-346: the IV's first byte is
\* changed in place (an empty IV panics), the answer encrypted under symKey
\* and written; AesEncrypt's error is dropped and its empty result written.
Respond ==
    /\ pc = "respond"
    /\ IF req.IV = <<>>
       THEN /\ pc' = "panicked"
            /\ UNCHANGED <<req, response>>
       ELSE LET iv == FlipIV(req.IV)
                enc == AesEncrypt(Answer(err, tskerrors), symKey, iv) IN
            /\ req' = [req EXCEPT !.IV = iv]
            /\ IF enc.outcome = "panic"
               THEN pc' = "panicked" /\ UNCHANGED response
               ELSE /\ pc' = "done"
                    /\ response' =
                         IF enc.outcome = "ok"
                         THEN [kind |-> "encrypted", error |-> err,
                               tskerrors |-> Answer(err, tskerrors).TskErrors,
                               key |-> symKey, iv |-> iv]
                         ELSE [NoResponse EXCEPT !.kind = "empty"]
    /\ UNCHANGED <<acl, chk, env, keyWatch, registry, config, rabbitChannel, symKey, decTicket, err,
                   hdVars, ptVars, amqpVars, history>>

Next ==
    \/ NewRequest
    \/ HandlerReturns
    \/ DecodeTask
    \/ DecryptTicket
    \/ HandleDecrypted
    \/ HdLoopExit
    \/ HdTaskInvalid
    \/ HdTaskDispatch
    \/ PtSkip
    \/ PtOverride
    \/ PtAfterOverride
    \/ PtReturnEmpty
    \/ PtDefault
    \/ PtAfterDefault
    \/ AmqpPublish
    \/ AmqpReconnect
    \/ AmqpRetry
    \/ HdAfterPush
    \/ Respond

Spec == Init /\ [][Next]_vars

\* ------------------------------------------------------ the key watchers
\* The map a watcher's callbacks work on: keys for ".priv", ticketKeys for
\* ".pub" (gateway.go readKeys lines 351 and 372)
KeyMap(w) == IF w = ".priv" THEN keys ELSE ticketKeys

\* gateway.go readKeys lines 354 and 375: delete(keys, name)
DeleteKey(w, name) ==
    IF w = ".priv"
    THEN /\ keys' = Restrict(keys, DOMAIN keys \ {name})
         /\ UNCHANGED ticketKeys
    ELSE /\ ticketKeys' = Restrict(ticketKeys, DOMAIN ticketKeys \ {name})
         /\ UNCHANGED keys

\* gateway.go readKeys lines 366 and 386: keys[name] = key
StoreKey(w, name, key) ==
    IF w = ".priv"
    THEN /\ keys' = [n \in DOMAIN keys \cup {name} |-> IF n = name THEN key ELSE keys[n]]
         /\ UNCHANGED ticketKeys
    ELSE /\ ticketKeys' = [n \in DOMAIN ticketKeys \cup {name} |->
                              IF n = name THEN key ELSE ticketKeys[n]]
         /\ UNCHANGED keys

\* part_000 dirWatcherFunc lines 230-247: an event arrives. Events for files
\* with another extension are skipped; a create calls onAdd with the path, a
\* delete or rename calls onRemove with the name cut out of the path, a
\* modify calls onRemove with the path as it is and then onAdd.
WatchEvent ==
    /\ pc # "fatal"
    /\ \E w \in Exts : \E path \in WatchedFiles(w), kind \in {"create", "remove", "modify"} :
         /\ watcher[w].pc = "idle"
         /\ Ext(path) = w
         /\ watcher' = [watcher EXCEPT ![w] =
              CASE kind = "create" ->
                     [pc |-> "add_load", kind |-> kind, path |-> path, arg |-> Nil, key |-> Nil]
                [] kind = "remove" ->
                     [pc |-> "rm_lock", kind |-> kind, path |-> path,
                      arg |-> CutExt(Base(path)), key |-> Nil]
                [] OTHER ->
                     [pc |-> "rm_lock", kind |-> kind, path |-> path, arg |-> path, key |-> Nil]]
    /\ UNCHANGED <<acl, chk, env, keysMutex, registry, config, rabbitChannel, pc, reqVars,
                   hdVars, ptVars, amqpVars, history>>

\* gateway.go readKeys lines 353 and 374: onRemove takes keysMutex
WatchRemoveLock ==
    /\ pc # "fatal"
    /\ \E w \in Exts :
         /\ watcher[w].pc = "rm_lock"
         /\ keysMutex = Nil
         /\ keysMutex' = w
         /\ watcher' = [watcher EXCEPT ![w].pc = "rm_delete"]
    /\ UNCHANGED <<acl, chk, env, registry, config, rabbitChannel, pc, reqVars,
                   hdVars, ptVars, amqpVars, history>>

\* gateway.go readKeys lines 354-356 and 375-377: the entry is deleted, the
\* mutex released and the map printed; after a modify event dirWatcherFunc
\* goes on to onAdd (part_000 line 247)
WatchRemoveDelete ==
    /\ pc # "fatal"
    /\ \E w \in Exts :
         /\ watcher[w].pc = "rm_delete"
         /\ DeleteKey(w, watcher[w].arg)
         /\ keysMutex' = Nil
         /\ watcher' = [watcher EXCEPT ![w] =
              IF watcher[w].kind = "modify"
              THEN [watcher[w] EXCEPT !.pc = "add_load", !.arg = Nil]
              ELSE WatcherIdle]
    /\ UNCHANGED <<acl, chk, env, config, rabbitChannel, pc, reqVars,
                   hdVars, ptVars, amqpVars, history>>

\* gateway.go readKeys lines 359-363 and 380-384: onAdd reads the key file
\* and returns when it is no key
WatchAddLoad ==
    /\ pc # "fatal"
    /\ \E w \in Exts :
         /\ watcher[w].pc = "add_load"
         /\ \E content \in FileContents(watcher[w].path) :
              LET l == LoadKey(watcher[w].path, content) IN
              watcher' = [watcher EXCEPT ![w] =
                 IF l.err THEN WatcherIdle
                 ELSE [watcher[w] EXCEPT !.pc = "add_lock", !.arg = l.name, !.key = l.key]]
    /\ UNCHANGED <<acl, chk, env, keysMutex, registry, config, rabbitChannel, pc, reqVars,
                   hdVars, ptVars, amqpVars, history>>

\* gateway.go readKeys lines 365 and 385: onAdd takes keysMutex
WatchAddLock ==
    /\ pc # "fatal"
    /\ \E w \in Exts :
         /\ watcher[w].pc = "add_lock"
         /\ keysMutex = Nil
         /\ keysMutex' = w
         /\ watcher' = [watcher EXCEPT ![w].pc = "add_store"]
    /\ UNCHANGED <<acl, chk, env, registry, config, rabbitChannel, pc, reqVars,
                   hdVars, ptVars, amqpVars, history>>

\* gateway.go readKeys lines 366-368 and 386-388: the key is stored under
\* its name, the mutex released and the map printed
WatchAddStore ==
    /\ pc # "fatal"
    /\ \E w \in Exts :
         /\ watcher[w].pc = "add_store"
         /\ StoreKey(w, watcher[w].arg, watcher[w].key)
         /\ keysMutex' = Nil
         /\ watcher' = [watcher EXCEPT ![w] = WatcherIdle]
    /\ UNCHANGED <<acl, chk, env, config, rabbitChannel, pc, reqVars,
                   hdVars, ptVars, amqpVars, history>>

\* gateway.go handleDecrypted line 119 reads ticketKeys without keysMutex
HandlerReadsTicketKeys == pc = "handleDecrypted" /\ decTicket.kind = "json"

\* The ".pub" watcher holds keysMutex and is about to write ticketKeys
WatcherWritesTicketKeys == watcher[".pub"].pc \in {"rm_delete", "add_store"}

\* The read of line 119 overlaps a write of ticketKeys: besides reading the
\* map as it was before or after the write (HandleDecrypted taken before or
\* after the watcher's step), the Go runtime may stop the process with
\* "concurrent map read and map write".
ConcurrentMapAccess ==
    /\ HandlerReadsTicketKeys
    /\ WatcherWritesTicketKeys
    /\ pc' = "fatal"
    /\ UNCHANGED <<acl, chk, env, keyWatch, registry, config, rabbitChannel, reqVars,
                   hdVars, ptVars, amqpVars, history>>

InitKeys ==
    /\ InitGateway
    /\ chkIn = NoTask
    /\ chkOut = NoVerdict
    /\ clients = "keys"
    /\ aclIn = [list |-> <<>>, requested |-> EmptyMap]
    /\ aclOut = NoPartition

\* The watchers next to the handlers of requests without tasks
NextKeys ==
    \/ WatchEvent
    \/ WatchRemoveLock
    \/ WatchRemoveDelete
    \/ WatchAddLoad
    \/ WatchAddLock
    \/ WatchAddStore
    \/ ConcurrentMapAccess
    \/ NewRequest
    \/ HandlerReturns
    \/ DecodeTask
    \/ DecryptTicket
    \/ HandleDecrypted
    \/ HdLoopExit
    \/ Respond

SpecKeys == InitKeys /\ [][NextKeys]_vars

\* ------------------------------------------------- checkTask on its own
\* Bytes on both sides of every limit stringPrintable tests, and the
\* largest byte
CheckBytes == {8, 9, 13, 14, 31, 32, 126, 127, 255}
\* Strings: empty, one byte, and two bytes of which the second is out of
\* range
CheckStrs == {<<>>} \cup {<<b>> : b \in CheckBytes} \cup {<<97, 127>>}

\* A task checkTask accepts
PlainTask == MkTask(<<97>>, <<>>, <<102>>, [n \in {YARA} |-> <<>>], <<>>, 0, <<>>)

\* The values each field of a task is given
FieldValues ==
    [PrimaryURI |-> CheckStrs,
     SecondaryURI |-> CheckStrs,
     Filename |-> CheckStrs,
     Tasks |-> {EmptyMap, [n \in {YARA} |-> << <<0>> >>], [n \in {YARA, <<>>} |-> <<>>],
                [n \in {YARA, <<31>>} |-> <<>>], [n \in {YARA, <<126>>} |-> <<>>]},
     Tags |-> {<< <<>> >>, << <<13>> >>, << <<14>> >>, <<(<<97>>), <<127>> >>},
     Attempts |-> {-1000, -1, 1},
     Comment |-> CheckStrs]

\* The tasks that differ from one of ts in at most one field
VaryOne(ts) ==
    ts \cup UNION {UNION {{[t EXCEPT ![f] = v] : v \in FieldValues[f]} :
                             f \in DOMAIN FieldValues} : t \in ts}

RECURSIVE Vary(_, _)
Vary(ts, n) == IF n = 0 THEN ts ELSE Vary(VaryOne(ts), n - 1)

CheckTasks == Vary({PlainTask}, MaxVaried)

InitCheck ==
    /\ InitGateway
    /\ clients = "none"
    /\ aclIn = [list |-> <<>>, requested |-> EmptyMap]
    /\ aclOut = NoPartition
    /\ chkIn \in CheckTasks
    /\ chkOut = NoVerdict

\* gateway.go handleDecrypted line 145: checkTask is applied to the task
ApplyCheckTask ==
    /\ ~chkOut.done
    /\ chkOut' = [done |-> TRUE, ok |-> checkTask(chkIn)]
    /\ UNCHANGED <<acl, chkIn, env, keyWatch, registry, config, rabbitChannel, pc,
                   reqVars, hdVars, ptVars, amqpVars, history>>

NextCheck == ApplyCheckTask

SpecCheck == InitCheck /\ [][NextCheck]_vars

\* ------------------------------------------ the ACL partition on its own
\* Requested mappings: any names of Names, each with one of two argument lists
Mappings ==
    UNION {[ns -> {<<>>, << <<120>> >>}] : ns \in SUBSET Names}
\* Configured lists: task names and the wildcard, repetitions included
AllowedLists ==
    UNION {[1..n -> Names \cup {Wildcard}] : n \in 0..MaxAllowed}

InitACL ==
    /\ InitGateway
    /\ chkIn = NoTask
    /\ chkOut = NoVerdict
    /\ clients = "none"
    /\ aclIn \in [list : AllowedLists, requested : Mappings]
    /\ aclOut = NoPartition

\* gateway.go Start lines 476-485 and handleDecrypted lines 153-169, for one
\* organization and one requested mapping
ApplyPartition ==
    /\ ~aclOut.done
    /\ LET p == Partition(AllowedSet(aclIn.list), aclIn.requested) IN
       aclOut' = [done |-> TRUE, accepted |-> p.accepted, rejected |-> p.rejected]
    /\ UNCHANGED <<aclIn, chk, env, keyWatch, registry, config, rabbitChannel, pc, reqVars, hdVars,
                   ptVars, amqpVars, history>>

NextACL == ApplyPartition

SpecACL == InitACL /\ [][NextACL]_vars

\* ============================================================ properties
\* The request's ticket was decrypted and parsed, its signature verifies
\* under the key found for its signer id, and the time read for the
\* expiration check was not after its expiration.
TicketPassed ==
    /\ symKey # Nil
    /\ decTicket.kind = "json"
    /\ ticket = decTicket.value
    /\ signKey # Nil
    /\ ticket.Signature = Sign(<<ticket.Expiration, ticket.Tasks, ticket.SignerKeyId>>, signKey)
    /\ checkedAt # 0
    /\ checkedAt <= ticket.Expiration

\* pushToTransport or pushToAMQP is running
Routing ==
    pc \in {"pt_loop", "pt_afterOverride", "pt_afterDefault", "amqp_publish",
            "amqp_reconnect", "amqp_retry"}

\* pushToAMQP has just returned to pushToTransport
AmqpReturned == pc \in {"pt_afterOverride", "pt_afterDefault"}

\* pushToTransport has just returned to handleDecrypted
TransportReturned == pc = "hd_afterPush"

Count(log, what) == Cardinality({k \in DOMAIN log : log[k] \in what})

\* C1: a message is published for a ticket, and routing is entered at all,
\* only after the envelope was decrypted, the text parsed, the signature
\* verified against a registered signer key and the expiration check passed;
\* a request with a top-level error has published nothing.
C1_PublishOnlyAfterTicketChecks ==
    /\ (anyPublished \/ Routing) => TicketPassed
    /\ err # 0 => ~anyPublished

C1_Witness ==
    /\ pc = "done"
    /\ anyPublished
    /\ TicketPassed
    /\ checkedAt = ticket.Expiration

\* The messages pushToTransport has to publish for a mapping: one per name
\* with an override, holding that name alone, and one for the rest
ExpectedMessages(t, mapping, overrides) ==
    LET ov == DOMAIN mapping \cap DOMAIN overrides
        rest == DOMAIN mapping \ ov
    IN {Message(overrides[n], [t EXCEPT !.Tasks = Restrict(mapping, {n})]) : n \in ov}
         \cup (IF rest = {} THEN {}
               ELSE {Message(RabbitDefault, [t EXCEPT !.Tasks = Restrict(mapping, rest)])})

\* C2: when pushToTransport returns nil, every name with an override was
\* published exactly once, alone, to its override destination, the other
\* names together in exactly one message to the default destination, every
\* name is in exactly one message, and nothing went to the default
\* destination when no name was left.
C2_RoutingSplit ==
    (TransportReturned /\ myerr = 0) =>
        /\ Range(published) = ExpectedMessages(task, ptArg, confRabbit)
        /\ Len(published) = Cardinality(ExpectedMessages(task, ptArg, confRabbit))
        /\ \A n \in DOMAIN ptArg :
              Cardinality({k \in DOMAIN published : n \in DOMAIN published[k].body.Tasks}) = 1
        /\ (DOMAIN ptArg \subseteq DOMAIN confRabbit) =>
              \A k \in DOMAIN published : published[k].dest # RabbitDefault

C2_Witness ==
    /\ TransportReturned
    /\ myerr = 0
    /\ Len(published) = 3
    /\ \E k \in DOMAIN published : published[k].dest = RabbitDefault

\* C3 as claimed: a first publish that failed, followed by a reconnect that
\* succeeded, ends with the message accepted exactly once.
C3_Original ==
    (AmqpReturned /\ amqpLog # <<>> /\ amqpLog[1] = "pub_err"
        /\ Count(amqpLog, {"conn_ok"}) > 0)
      => Count(amqpLog, {"pub_ok"}) = 1

\* C3 as amended: after a failed first publish and a successful reconnect the
\* message is accepted at most once; exactly once, with a nil result, when
\* the retried publish succeeds, and not at all, with ERR_OTHER_RECOVERABLE,
\* when the retried publish fails.
C3_RetryAtMostOnce ==
    (AmqpReturned /\ amqpLog # <<>> /\ amqpLog[1] = "pub_err"
        /\ Count(amqpLog, {"conn_ok"}) > 0)
      => /\ Len(amqpLog) >= 3
         /\ IF amqpLog[Len(amqpLog)] = "pub_ok"
            THEN /\ Count(amqpLog, {"pub_ok"}) = 1
                 /\ amqpErr = 0
                 /\ published # <<>>
                 /\ published[Len(published)] = Message(rconf, pub)
                 /\ Count(published, {Message(rconf, pub)}) = 1
            ELSE /\ amqpLog[Len(amqpLog)] = "pub_err"
                 /\ Count(amqpLog, {"pub_ok"}) = 0
                 /\ amqpErr = ERR_OTHER_RECOVERABLE
                 /\ Count(published, {Message(rconf, pub)}) = 0

C3_Witness ==
    /\ AmqpReturned
    /\ amqpLog = <<"pub_err", "conn_err", "conn_ok", "pub_ok">>
    /\ Count(published, {Message(rconf, pub)}) = 1

\* C4: in one pushToAMQP call Publish is called at most twice and
\* connectRabbit at most 3 times; when the call has returned, a second
\* Publish was made exactly when the first failed and a connectRabbit
\* succeeded, and 3 failed connectRabbit calls end the call with
\* ERR_OTHER_RECOVERABLE and no second Publish.
C4_AttemptBounds ==
    /\ Count(amqpLog, {"pub_ok", "pub_err"}) <= 2
    /\ Count(amqpLog, {"conn_ok", "conn_err"}) <= MaxReconnect
    /\ try = Count(amqpLog, {"conn_ok", "conn_err"})
    /\ AmqpReturned =>
         /\ Count(amqpLog, {"pub_ok", "pub_err"}) >= 1
         /\ (Count(amqpLog, {"pub_ok", "pub_err"}) = 2)
              <=> (amqpLog[1] = "pub_err" /\ Count(amqpLog, {"conn_ok"}) > 0)
         /\ (Count(amqpLog, {"conn_err"}) = MaxReconnect) =>
              (amqpErr = ERR_OTHER_RECOVERABLE /\ Count(amqpLog, {"pub_ok", "pub_err"}) = 1)

C4_Witness ==
    /\ AmqpReturned
    /\ amqpLog = <<"pub_err", "conn_err", "conn_err", "conn_ok", "pub_ok">>

\* C5 as claimed: when pushToTransport returns an error, handleDecrypted adds
\* exactly one TaskError with that error, and it carries the task with its
\* original URIs and the whole accepted mapping of the ACL partition.
C5_Claim ==
    [][(TransportReturned /\ myerr # 0) =>
         LET added == SubSeq(tskerrors', Len(tskerrors) + 1, Len(tskerrors'))
             mine == {k \in DOMAIN added : added[k].Code = myerr}
         IN /\ Cardinality(mine) = 1
            /\ \A k \in mine :
                 added[k].TaskStruct = [ticket.Tasks[i] EXCEPT !.Tasks = ptArg]]_vars

\* C6: an allowed set that holds the wildcard accepts the whole requested
\* mapping and rejects nothing, whatever else the set holds.
C6_WildcardAcceptsAll ==
    (aclOut.done /\ Wildcard \in Range(aclIn.list)) =>
        /\ aclOut.accepted = aclIn.requested
        /\ aclOut.rejected = EmptyMap

C6_Witness ==
    /\ aclOut.done
    /\ Wildcard \in Range(aclIn.list)
    /\ Range(aclIn.list) \cap Names # {}
    /\ \E n \in DOMAIN aclIn.requested : n \notin Range(aclIn.list)

\* C7: without the wildcard, accepted and rejected are disjoint, together
\* they are the requested mapping with its argument lists, every accepted
\* name is in the allowed set and no rejected name is.
C7_PartitionExact ==
    (aclOut.done /\ Wildcard \notin Range(aclIn.list)) =>
        /\ DOMAIN aclOut.accepted \cap DOMAIN aclOut.rejected = {}
        /\ DOMAIN aclOut.accepted \cup DOMAIN aclOut.rejected = DOMAIN aclIn.requested
        /\ \A n \in DOMAIN aclOut.accepted : aclOut.accepted[n] = aclIn.requested[n]
        /\ \A n \in DOMAIN aclOut.rejected : aclOut.rejected[n] = aclIn.requested[n]
        /\ DOMAIN aclOut.accepted \subseteq Range(aclIn.list)
        /\ DOMAIN aclOut.rejected \cap Range(aclIn.list) = {}

C7_Witness ==
    /\ aclOut.done
    /\ Wildcard \notin Range(aclIn.list)
    /\ DOMAIN aclOut.accepted # {}
    /\ DOMAIN aclOut.rejected # {}
    /\ \E n \in DOMAIN aclOut.accepted : aclOut.accepted[n] # <<>>

\* C8 as claimed, for the requests in which the loop over the tasks began:
\* when the handler is over, every task of a ticket that passed the
\* ticket-level checks was taken up, in ticket order.
C8_Claim ==
    (pc \in {"done", "panicked"} /\ TicketPassed /\ processed # <<>>) =>
        processed = [k \in 1..Len(ticket.Tasks) |-> k]

IsInvalidError(e) == e.Code = ERR_TASK_INVALID
IsInvalidTask(t) == ~checkTask(t)

\* The TaskErrors a ticket's structurally invalid tasks call for, in order
InvalidErrors(tasks) ==
    [k \in 1..Len(SelectSeq(tasks, IsInvalidTask)) |->
        TaskError(SelectSeq(tasks, IsInvalidTask)[k], ERR_TASK_INVALID)]

C10_Claim ==
    (pc \in {"done", "panicked"} /\ req.badField = "none" /\ err # 0 /\ symKey = Nil) =>
        /\ pc = "done"
        /\ response.kind = "plain"
        /\ response.error = err

\* C11 as claimed: a request whose symmetric key was recovered is answered
\* with the Answer encrypted under that key, whichever later stage failed,
\* and a response in the clear is written only when no key was recovered.
C11_Claim ==
    /\ (pc = "done" /\ symKey # Nil) =>
          /\ response.kind = "encrypted"
          /\ response.key = symKey
          /\ response.error = err
    /\ (pc = "done" /\ response.kind = "plain") => symKey = Nil

\* C12: a response that is encrypted uses an IV that differs from the IV the
\* request's payload was decrypted with: the same IV, one block long, with
\* the lowest bit of its first byte flipped.
C12_ResponseIVDiffers ==
    (pc = "done" /\ response.kind = "encrypted") =>
        /\ Len(decIV) = BlockSize
        /\ Len(response.iv) = BlockSize
        /\ response.iv # decIV
        /\ response.iv[1] # decIV[1]
        /\ response.iv[1] \div 2 = decIV[1] \div 2
        /\ response.iv[1] \in 0..255
        /\ \A k \in 2..BlockSize : response.iv[k] = decIV[k]

C12_Witness ==
    /\ pc = "done"
    /\ response.kind = "encrypted"
    /\ decIV = IV16ff
    /\ response.iv[1] = 254

\* C13 as claimed: a ticket whose signature verified is rejected with
\* ERR_OTHER_RECOVERABLE, with nothing published, when the time read is at or
\* after its expiration, and goes on only when the time is before it.
C13_Original ==
    checkedAt # 0 =>
        /\ checkedAt >= ticket.Expiration =>
              (err = ERR_OTHER_RECOVERABLE /\ ~anyPublished)
        /\ err = 0 => checkedAt < ticket.Expiration

\* C13 as amended: a ticket whose signature verified is rejected with
\* ERR_OTHER_RECOVERABLE, with no task taken up and nothing published, when
\* the time read is after its expiration; when the time is before the
\* expiration or equal to it the check passes, and the request goes on to
\* the lookup of the organization's ACL entry.
C13_RejectedWhenAfter ==
    checkedAt # 0 =>
        /\ checkedAt > ticket.Expiration =>
              /\ err = ERR_OTHER_RECOVERABLE
              /\ processed = <<>>
              /\ ~anyPublished
        /\ checkedAt <= ticket.Expiration =>
              err = IF ticket.SignerKeyId \in DOMAIN confAllowedTasks
                    THEN 0 ELSE ERR_OTHER_RECOVERABLE

C13_Witness ==
    /\ pc = "done"
    /\ ticket.Signature = Sign(<<ticket.Expiration, ticket.Tasks, ticket.SignerKeyId>>, signKey)
    /\ ticket.SignerKeyId \in DOMAIN confAllowedTasks
    /\ ticket.Tasks # <<>>
    /\ checkedAt > ticket.Expiration
    /\ response.kind = "encrypted"
    /\ response.error = ERR_OTHER_RECOVERABLE

\* C14 as claimed: every access to keys and to ticketKeys is made with
\* keysMutex held, so that no lookup in a map overlaps an add to or a remove
\* from that map, and the process is never stopped for such an overlap.
C14_Claim ==
    /\ ~(HandlerReadsTicketKeys /\ WatcherWritesTicketKeys)
    /\ pc # "fatal"

\* C15 as claimed: when a watcher is done with a modify event, its map
\* holds, under the name cut out of the file's path, the key read from the
\* file if the file parsed, and no key if it did not.
C15_Claim ==
    [][\A w \in Exts :
         (watcher[w].kind = "modify" /\ watcher'[w].pc = "idle") =>
            LET name == CutExt(Base(watcher[w].path))
                map == IF w = ".priv" THEN keys' ELSE ticketKeys'
            IN IF watcher[w].pc = "add_store"
               THEN name \in DOMAIN map /\ map[name] = watcher[w].key
               ELSE name \notin DOMAIN map]_vars

\* A byte stringPrintable lets pass: 0x09..0x0d or 0x20..0x7e
PrintableByte(b) == b \in (9..13) \cup (32..126)
HasOtherByte(str) == \E k \in DOMAIN str : ~PrintableByte(str[k])

\* C16: checkTask rejects a task exactly when its primaryURI is empty, its
\* filename is empty, its mapping is empty, a task name is empty, attempts
\* is negative, or primaryURI, secondaryURI, filename, a task name, a tag or
\* the comment holds a byte outside 0x09..0x0d and 0x20..0x7e.
C16_RejectsExactly ==
    chkOut.done =>
        (~chkOut.ok <=>
            \/ chkIn.PrimaryURI = <<>>
            \/ chkIn.Filename = <<>>
            \/ DOMAIN chkIn.Tasks = {}
            \/ <<>> \in DOMAIN chkIn.Tasks
            \/ chkIn.Attempts < 0
            \/ HasOtherByte(chkIn.PrimaryURI)
            \/ HasOtherByte(chkIn.SecondaryURI)
            \/ HasOtherByte(chkIn.Filename)
            \/ \E n \in DOMAIN chkIn.Tasks : HasOtherByte(n)
            \/ \E j \in DOMAIN chkIn.Tags : HasOtherByte(chkIn.Tags[j])
            \/ HasOtherByte(chkIn.Comment))

C16_Witness ==
    /\ chkOut.done
    /\ ~chkOut.ok
    /\ chkIn = [PlainTask EXCEPT !.SecondaryURI = <<97, 127>>]

\* The signature a ticket carries is the signature, by the key registered
\* for its signer id, of its other three fields as they are
SignedAsIs(t) ==
    /\ t.SignerKeyId \in DOMAIN ticketKeys
    /\ t.Signature =
          Sign(<<t.Expiration, t.Tasks, t.SignerKeyId>>, ticketKeys[t.SignerKeyId])

\* C17: a ticket gets past the verification only if its signature is the
\* signature, under the key registered for its signer id, of the ticket
\* without the signature; a ticket of which the expiration, a task or the
\* signer id was altered after signing ends with a top-level error, none of
\* its tasks taken up and nothing published.
C17_OnlySignedTickets ==
    /\ (checkedAt # 0 \/ processed # <<>> \/ Routing \/ anyPublished) =>
          (ticket = decTicket.value /\ SignedAsIs(ticket))
    /\ (pc \in {"respond", "done"} /\ decTicket.kind = "json"
            /\ ~SignedAsIs(decTicket.value)) =>
          /\ err = IF decTicket.value.SignerKeyId \in DOMAIN ticketKeys
                   THEN ERR_OTHER_RECOVERABLE ELSE ERR_KEY_UNKNOWN
          /\ checkedAt = 0
          /\ processed = <<>>
          /\ ~anyPublished

C17_Witness ==
    /\ pc = "done"
    /\ decTicket.kind = "json"
    /\ decTicket.value.SignerKeyId = "OrgAll"
    /\ decTicket.value.Signature.by = "OrgAll"
    /\ decTicket.value.Signature.over[1] = decTicket.value.Expiration
    /\ decTicket.value.Signature.over[2] # decTicket.value.Tasks
    /\ Len(decTicket.value.Signature.over[2]) = Len(decTicket.value.Tasks)
    /\ decTicket.value.Signature.over[3] = "OrgAll"
    /\ response.kind = "encrypted"
    /\ response.error = ERR_OTHER_RECOVERABLE
    /\ ~anyPublished

\* The names of a task the signer of the ticket at hand may not request
RejectedOf(t) == Partition(allowedTasks[ticket.SignerKeyId], t.Tasks).rejected

IsNotAllowedError(e) == e.Code = ERR_NOT_ALLOWED
HasRejected(t) == checkTask(t) /\ DOMAIN RejectedOf(t) # {}

\* The ERR_NOT_ALLOWED TaskErrors a ticket's tasks call for, in order
NotAllowedErrors(tasks) ==
    [k \in 1..Len(SelectSeq(tasks, HasRejected)) |->
        TaskError([SelectSeq(tasks, HasRejected)[k] EXCEPT
                      !.Tasks = RejectedOf(SelectSeq(tasks, HasRejected)[k])],
                  ERR_NOT_ALLOWED)]

\* C18: when pushToTransport has returned for a valid task, handleDecrypted
\* adds one ERR_NOT_ALLOWED TaskError exactly when the task's rejected mapping
\* is not empty, whether routing failed or not; it carries the task as the
\* ticket has it (original URIs) with exactly the rejected mapping, and comes
\* after the routing TaskError when there is one. The errors handed back for
\* the ticket, and the answer written, hold exactly these TaskErrors, one per
\* such task, in ticket order.
C18_RejectedReported ==
    [][/\ TransportReturned =>
             LET added == SubSeq(tskerrors', Len(tskerrors) + 1, Len(tskerrors'))
                 rej == RejectedOf(ticket.Tasks[i])
                 n == Len(added)
             IN /\ n = (IF myerr # 0 THEN 1 ELSE 0) + (IF DOMAIN rej # {} THEN 1 ELSE 0)
                /\ Count(added, {e \in Range(added) : IsNotAllowedError(e)})
                      = IF DOMAIN rej # {} THEN 1 ELSE 0
                /\ DOMAIN rej # {} =>
                      /\ added[n] =
                            TaskError([ticket.Tasks[i] EXCEPT !.Tasks = rej], ERR_NOT_ALLOWED)
                      /\ myerr # 0 => (n = 2 /\ added[1].Code = myerr)
       /\ (pc = "hd_loop" /\ pc' = "respond") =>
             SelectSeq(tskerrors, IsNotAllowedError) = NotAllowedErrors(ticket.Tasks)
       /\ (pc = "respond" /\ err = 0 /\ pc' = "done" /\ response'.kind = "encrypted") =>
             /\ response'.error = 0
             /\ SelectSeq(response'.tskerrors, IsNotAllowedError)
                   = NotAllowedErrors(ticket.Tasks)]_vars

C18_Witness ==
    /\ pc = "done"
    /\ response.kind = "encrypted"
    /\ ticket.SignerKeyId = "OrgSome"
    /\ ticket.Tasks = <<TaskB, TaskA>>
    /\ response.tskerrors =
          <<TaskError([TaskB EXCEPT !.Tasks = Restrict(TaskB.Tasks, {YARA, PEID})],
                      ERR_OTHER_RECOVERABLE),
            TaskError([TaskB EXCEPT !.Tasks = Restrict(TaskB.Tasks, {CUCKOO})],
                      ERR_NOT_ALLOWED)>>

\* A step in which rabbitChannel.Publish is called
PublishCalled ==
    /\ pc \in {"amqp_publish", "amqp_retry"}
    /\ \/ pc' = "panicked"
       \/ /\ Len(amqpLog') = Len(amqpLog) + 1
          /\ amqpLog'[Len(amqpLog')] \in {"pub_ok", "pub_err"}

\* C19: a pushToAMQP call that returns an error ends pushToTransport at once
\* with that error, handleDecrypted then goes on to the ticket's next task,
\* and Publish is only ever called while no error stands for the task at
\* hand: after the failure nothing more is published for the task, neither
\* for the names still to be looked at nor to the default destination.
C19_NoPublishAfterFailure ==
    [][/\ (AmqpReturned /\ amqpErr # 0) =>
             /\ pc' = "hd_afterPush"
             /\ myerr' = amqpErr
             /\ published' = published
       /\ (TransportReturned /\ myerr # 0) =>
             /\ pc' = "hd_loop"
             /\ i' = i + 1
             /\ anyPublished' = anyPublished
       /\ PublishCalled => (myerr = 0 /\ amqpErr = 0)
       /\ (pc \in {"pt_loop", "amqp_publish", "amqp_reconnect", "amqp_retry"}) => myerr = 0
       /\ (pc \in {"pt_loop", "amqp_publish", "amqp_reconnect", "amqp_retry"}
             /\ pc' \in {"pt_loop", "amqp_publish", "amqp_reconnect", "amqp_retry"}) =>
             (i' = i /\ amqpErr' = 0)]_vars

C19_Witness ==
    /\ TransportReturned
    /\ myerr = ERR_OTHER_RECOVERABLE
    /\ todo \cap DOMAIN confRabbit # {}
    /\ DOMAIN acceptedTasks \ DOMAIN confRabbit # {}
    /\ published = <<>>

\* The first of the ticket-level stages that the request at hand does not
\* pass, told from the request, the registered keys and the time read for
\* the expiration: decryption (fingerprint, key unwrapping, payload), parse,
\* signer key, signature, expiration; "none" when it passes them all.
FailedStage ==
    IF req.KeyFingerprint \notin DOMAIN keys THEN "fingerprint"
    ELSE IF RsaDecrypt(req.EncryptedKey, keys[req.KeyFingerprint]).err THEN "unwrap"
    ELSE IF AesDecrypt(req.Encrypted,
                       RsaDecrypt(req.EncryptedKey, keys[req.KeyFingerprint]).key,
                       req.IV).outcome # "ok" THEN "payload"
    ELSE IF decTicket.kind # "json" THEN "parse"
    ELSE IF decTicket.value.SignerKeyId \notin DOMAIN ticketKeys THEN "signer"
    ELSE IF ~SignedAsIs(decTicket.value) THEN "signature"
    ELSE IF checkedAt > decTicket.value.Expiration THEN "expiry"
    ELSE "none"

\* C20: when handleIncoming has returned, the top-level error is the error of
\* the first ticket-level stage that failed, in the order decryption, parse,
\* signer key lookup, signature verification, expiration: ERR_KEY_UNKNOWN
\* for a fingerprint or signer id that is not registered, ERR_ENCRYPTION for
\* a failed decryption, ERR_OTHER_RECOVERABLE for a failed parse, signature
\* or expiration check. No later stage has run (no ticket parsed after a
\* failed decryption, no signer key after a failed parse, no time read
\* before the signature is verified, no task taken up or published), and the
\* answer built from it carries no TaskErrors.
C20_FirstFailingStage ==
    /\ pc = "respond" =>
          /\ FailedStage \in {"fingerprint", "signer"} => err = ERR_KEY_UNKNOWN
          /\ FailedStage \in {"unwrap", "payload"} => err = ERR_ENCRYPTION
          /\ FailedStage \in {"parse", "signature", "expiry"} => err = ERR_OTHER_RECOVERABLE
          /\ FailedStage \in {"fingerprint", "unwrap", "payload"} =>
                (decTicket.kind # "json" /\ ticket = NoTicket)
          /\ FailedStage \in {"fingerprint", "unwrap", "payload", "parse", "signer"} =>
                signKey = Nil
          /\ FailedStage \notin {"expiry", "none"} => checkedAt = 0
          /\ FailedStage \in {"expiry", "none"} =>
                (checkedAt # 0 /\ ticket = decTicket.value
                   /\ signKey = ticketKeys[ticket.SignerKeyId])
          /\ FailedStage # "none" =>
                /\ Answer(err, tskerrors) = [Error |-> err, TskErrors |-> <<>>]
                /\ processed = <<>>
                /\ published = <<>>
                /\ ~anyPublished
          /\ (FailedStage = "none" /\ err # 0) =>
                ticket.SignerKeyId \notin DOMAIN allowedTasks
    /\ (pc = "done" /\ response.kind = "encrypted" /\ response.error # 0) =>
          (response.error = err /\ response.tskerrors = <<>>)

C20_Witness ==
    /\ pc = "done"
    /\ response.kind = "encrypted"
    /\ response.error = ERR_KEY_UNKNOWN
    /\ response.tskerrors = <<>>
    /\ decTicket.value.SignerKeyId = "OrgNoKey"
    /\ decTicket.value.Tasks # <<>>
    /\ symKey # Nil
    /\ signKey = Nil

\* A step in which connectRabbit is called, and its result
ReconnectCalled == pc = "amqp_reconnect" /\ Len(amqpLog') = Len(amqpLog) + 1
ReconnectOk == ReconnectCalled /\ amqpLog'[Len(amqpLog')] = "conn_ok"
ReconnectFailed == ReconnectCalled /\ amqpLog'[Len(amqpLog')] = "conn_err"

\* C21 as claimed: Publish is only called on a channel on which the
\* destination of the message was declared, and connectRabbit returns nil,
\* so that the publish is retried, only with the default destination and
\* every override destination declared on the new channel.
C21_Claim ==
    [][/\ PublishCalled =>
             (~rabbitChannel.nil /\ rconf \in rabbitChannel.declared)
       /\ ReconnectOk =>
             /\ pc' = "amqp_retry"
             /\ ~rabbitChannel'.nil
             /\ rabbitChannel'.declared = {RabbitDefault} \cup Range(confRabbit)]_vars

\* C22 as claimed: the shared handle always refers to a channel that was
\* opened, a connectRabbit that fails leaves the handle as it was, and a
\* Publish on the handle returns, with nil or with an error.
C22_Claim ==
    [][/\ ~rabbitChannel.nil
       /\ ~rabbitChannel'.nil
       /\ ReconnectFailed => rabbitChannel' = rabbitChannel
       /\ PublishCalled => pc' # "panicked"]_vars

====
